---- MODULE Spec2Model ----
(***************************************************************************)
(* Model of src/src/App.jsx: the search box (App.q, App.shown), the cards  *)
(* (Card.open) and the copy buttons (CopyBtn.ok and its revert timers).    *)
(*                                                                         *)
(* Strings are sequences of one-character strings, so that toLowerCase and *)
(* includes are computed character by character as the JS built-ins do.    *)
(* React state lives in component instances: a Card instance exists while  *)
(* its entry is in the rendered list (key = s.id), a CopyBtn instance      *)
(* exists while its Card is mounted and open.  An instance that unmounts   *)
(* loses its useState cell; a new instance starts from useState's initial  *)
(* value.                                                                  *)
(***************************************************************************)
EXTENDS Integers, Sequences, FiniteSets, Bags, TLC

VARIABLES
    q,            \* App: const [q, setQ] = useState("")
    list,         \* the rendered children of the list <div>: <<[key, n]>>
    open,         \* Card: [open, setOpen] of every mounted Card, by key
    btn,          \* CopyBtn: [ok, setOk] of every mounted CopyBtn, by key;
                  \*   history: wrote, the outcome of the clipboard write the
                  \*   acknowledgment on screen was shown for
    timers,       \* bag of pending setTimeout callbacks
    hasClipboard, \* whether navigator.clipboard is defined in this browser
    uncaught,     \* an event handler has thrown
    unhandled,    \* a promise has rejected with no rejection handler
    was           \* history: the open flag a Card had when it unmounted

vars == <<q, list, open, btn, timers, hasClipboard, uncaught, unhandled, was>>

----------------------------------------------------------------------------
(* Bounds *)

MaxQLen == 3      \* longest query typed when the filter alone is explored
MaxTimers == 2    \* most setTimeout callbacks pending at once
Period == 2       \* the 1500 ms of setTimeout, in ticks

----------------------------------------------------------------------------
(* Strings *)

Alphabet == {"a", "A", "b", "B", " ", "\t"}

\* String.prototype.toLowerCase, on the model's alphabet
toLowerCaseChar(c) ==
    CASE c = "A" -> "a"
      [] c = "B" -> "b"
      [] OTHER -> c

RECURSIVE toLowerCase(_)
toLowerCase(s) ==
    IF s = <<>> THEN <<>>
    ELSE <<toLowerCaseChar(Head(s))>> \o toLowerCase(Tail(s))

\* String.prototype.indexOf(n, k): scan from position k (0-based), -1 if absent
RECURSIVE indexOf(_, _, _)
indexOf(h, n, k) ==
    IF k + Len(n) > Len(h) THEN -1
    ELSE IF SubSeq(h, k + 1, k + Len(n)) = n THEN k
    ELSE indexOf(h, n, k + 1)

startsWith(h, n) == indexOf(h, n, 0) = 0

includesNonEmpty(h, n) == n # <<>> /\ indexOf(h, n, 0) # -1

\* String.prototype.includes
includes(h, n) == indexOf(h, n, 0) # -1

----------------------------------------------------------------------------
(* The catalog.  SECTIONS of the source holds 23 entries of prose and code;   *)
(* the model keeps its shape on the small alphabet: six fields per entry,     *)
(* unique ids, mixed case, a later entry's code mentioning an earlier label,  *)
(* every entry containing a space, some containing a run of two spaces        *)
(* (indentation), none containing a tab, and id/color/note text that does not *)
(* occur in label/desc/code.                                                  *)

SECTIONS == <<
    [id    |-> <<"a", "a">>,
     color |-> <<"B", "A">>,
     label |-> <<"A", "b">>,
     desc  |-> <<"b", " ", "a">>,
     note  |-> <<"b", "b">>,
     code  |-> <<"a", "b">>],
    [id    |-> <<"b", "a", "b">>,
     color |-> <<"A", "A">>,
     label |-> <<"B", "a">>,
     desc  |-> <<"b", "a">>,
     note  |-> <<"a", " ", "a">>,
     code  |-> <<"A", "b", " ", " ", "b", "a">>],
    [id    |-> <<"a", "b", "b">>,
     color |-> <<"B", "A">>,
     label |-> <<"B">>,
     desc  |-> <<"b", " ", "B">>,
     note  |-> <<"a", "b">>,
     code  |-> <<"b", "b">>]
>>

N == Len(SECTIONS)

Ids == {SECTIONS[i].id : i \in 1..N}

\* Array.prototype.indexOf on SECTIONS: first position holding s, 0-based, or -1
SECTIONSindexOf(s) ==
    IF \E i \in 1..N : SECTIONS[i] = s
    THEN (CHOOSE i \in 1..N : SECTIONS[i] = s /\ \A j \in 1..(i - 1) : SECTIONS[j] # s) - 1
    ELSE -1

----------------------------------------------------------------------------
(* App.shown *)

matchesWithNote(s, lq) ==
    \/ includes(toLowerCase(s.label), lq)
    \/ includes(toLowerCase(s.desc), lq)
    \/ includes(toLowerCase(s.code), lq)
    \/ includes(toLowerCase(s.note), lq)

\* the predicate given to SECTIONS.filter
matches(s, lq) ==
    \/ includes(toLowerCase(s.label), lq)
    \/ includes(toLowerCase(s.desc), lq)
    \/ includes(toLowerCase(s.code), lq)

lowerQueryNoop(query) == query

\* const lq = q.toLowerCase()
lowerQuery(query) == toLowerCase(query)

shownReversed(query) ==
    LET lq == lowerQuery(query)
        f == SelectSeq(SECTIONS, LAMBDA s : matches(s, lq))
    IN  [k \in 1..Len(f) |-> f[Len(f) + 1 - k]]

\* useMemo(() => SECTIONS.filter(...), [q])
shown(query) ==
    LET lq == lowerQuery(query)
    IN  SelectSeq(SECTIONS, LAMBDA s : matches(s, lq))

mapRenumbered(f) == [k \in 1..Len(f) |-> [key |-> f[k].id, n |-> k]]

\* shown.map(s => <Card key={s.id} s={s} n={SECTIONS.indexOf(s)+1} />)
RECURSIVE map(_)
map(f) ==
    IF f = <<>> THEN <<>>
    ELSE <<[key |-> Head(f).id, n |-> SECTIONSindexOf(Head(f)) + 1]>> \o map(Tail(f))

\* the children of the list <div>: the Cards of shown, in the order of shown;
\* with shown empty the <p>No results</p> is rendered and no Card at all
render(query) == map(shown(query))

Keys(l) == {l[k].key : k \in 1..Len(l)}

----------------------------------------------------------------------------
(* State after the first render *)

Init ==
    /\ q = <<>>
    /\ list = render(<<>>)
    /\ open = [i \in Keys(render(<<>>)) |-> FALSE]
    /\ btn = [i \in {} |-> [ok |-> FALSE, wrote |-> "none"]]
    /\ timers = EmptyBag
    /\ hasClipboard \in BOOLEAN
    /\ uncaught = FALSE
    /\ unhandled = FALSE
    /\ was = [i \in Ids |-> FALSE]

----------------------------------------------------------------------------
(* Reconciliation: which component instances survive a re-render *)

\* Card: const [open, setOpen] = useState(false).  A Card whose key was in the
\* previous list keeps its cell; a Card that mounts starts from false.
cardStateOpen(prev, i) == IF i \in DOMAIN prev THEN prev[i] ELSE TRUE

cardStateReset(prev, i) == FALSE

cardState(prev, i) == IF i \in DOMAIN prev THEN prev[i] ELSE FALSE

\* CopyBtn: const [ok, setOk] = useState(false), for a CopyBtn that mounts
newBtn == [ok |-> FALSE, wrote |-> "none"]

\* {open && (... <CopyBtn text={s.code} /> ...)}: the CopyBtn instances left
\* after the Cards' open flags become o
btnsAfter(o) ==
    [i \in {j \in DOMAIN o : o[j]} |-> IF i \in DOMAIN btn THEN btn[i] ELSE newBtn]

\* a pending callback whose CopyBtn has unmounted calls setOk on a dead instance
timersAfter(b) ==
    BagOfAll(LAMBDA t : IF t.live /\ t.btn \notin DOMAIN b
                        THEN [t EXCEPT !.live = FALSE] ELSE t,
             timers)

\* the open flags the Cards of the newly rendered list l hold
openAfter(l) == [i \in Keys(l) |-> cardState(open, i)]

----------------------------------------------------------------------------
(* Event handlers *)

\* <input onChange={e => setQ(e.target.value)}>, and the re-render it causes
SetQ(v) ==
    /\ v # q
    /\ q' = v
    /\ list' = render(v)
    /\ open' = openAfter(list')
    /\ btn' = btnsAfter(open')
    /\ timers' = timersAfter(btn')
    /\ was' = [i \in Ids |->
                 IF i \in Keys(list') THEN FALSE
                 ELSE IF i \in DOMAIN open THEN open[i]
                 ELSE was[i]]
    /\ UNCHANGED <<hasClipboard, uncaught, unhandled>>

\* {q && <button onClick={() => setQ("")}>}
ClearQ ==
    /\ q # <<>>
    /\ SetQ(<<>>)

toggledAccordion(o, i) == [j \in DOMAIN o |-> IF j = i THEN ~o[i] ELSE FALSE]

\* setOpen(o => !o) of Card i
toggled(o, i) == [o EXCEPT ![i] = ~o[i]]

\* Card header <button onClick={() => setOpen(o => !o)}>
Toggle(i) ==
    /\ i \in DOMAIN open
    /\ LET o == toggled(open, i)
           b == btnsAfter(o)
       IN  /\ open' = o
           /\ btn' = b
           /\ timers' = timersAfter(b)
    /\ UNCHANGED <<q, list, hasClipboard, uncaught, unhandled, was>>

\* CopyBtn onClick: navigator.clipboard.writeText(text); setOk(true);
\* setTimeout(() => setOk(false), 1500).  With navigator.clipboard undefined
\* the first statement throws a TypeError and the rest does not run.  Otherwise
\* writeText returns a promise that resolves or rejects (permission denied);
\* nothing awaits it or attaches a handler, so its outcome is recorded in the
\* same step.
Copy(i) ==
    /\ i \in DOMAIN btn
    /\ IF ~hasClipboard
       THEN /\ uncaught' = TRUE
            /\ UNCHANGED <<btn, timers, unhandled>>
       ELSE /\ BagCardinality(timers) < MaxTimers
            /\ \E outcome \in {"resolved", "rejected"} :
                 /\ btn' = [btn EXCEPT ![i] = [ok |-> TRUE, wrote |-> outcome]]
                 /\ unhandled' = (unhandled \/ outcome = "rejected")
            /\ timers' = timers (+) SetToBag({[btn |-> i, left |-> Period, live |-> TRUE]})
            /\ UNCHANGED uncaught
    /\ UNCHANGED <<q, list, open, hasClipboard, was>>

----------------------------------------------------------------------------
(* Time and timers *)

\* one tick of the clock: every pending callback is one tick nearer; a
\* callback that is due runs before the clock moves on
Tick ==
    /\ timers # EmptyBag
    /\ \A t \in BagToSet(timers) : t.left > 0
    /\ timers' = BagOfAll(LAMBDA t : [t EXCEPT !.left = t.left - 1], timers)
    /\ UNCHANGED <<q, list, open, btn, hasClipboard, uncaught, unhandled, was>>

firedNoop(b, t) == b

firedAnyInstance(b, t) ==
    IF t.btn \in DOMAIN b THEN [b EXCEPT ![t.btn] = [ok |-> FALSE, wrote |-> "none"]] ELSE b

\* () => setOk(false), on the instance that set the timer
fired(b, t) == IF t.live THEN [b EXCEPT ![t.btn] = [ok |-> FALSE, wrote |-> "none"]] ELSE b

Fire(t) ==
    /\ t \in BagToSet(timers)
    /\ t.left = 0
    /\ timers' = timers (-) SetToBag({t})
    /\ btn' = fired(btn, t)
    /\ UNCHANGED <<q, list, open, hasClipboard, uncaught, unhandled, was>>

----------------------------------------------------------------------------
(* Specifications *)

\* the queries typed while the cards and copy buttons are exercised: one per
\* kind of result (everything, two entries, the last entry alone, nothing)
Typed == { <<>>, <<"a">>, <<"b", "b">>, <<"\t">> }

Next ==
    \/ ClearQ
    \/ \E v \in Typed : SetQ(v)
    \/ \E i \in Ids : Toggle(i)
    \/ \E i \in Ids : Copy(i)
    \/ Tick
    \/ \E t \in BagToSet(timers) : Fire(t)

Spec == Init /\ [][Next]_vars

\* setTimeout callbacks do run and time does pass
FairSpec == Spec /\ WF_vars(Tick) /\ WF_vars(\E t \in BagToSet(timers) : Fire(t))

\* the filter alone, over every query of at most MaxQLen characters, typed one
\* key at a time: a character appended, the last character deleted, or the
\* clear button
Type(c) ==
    /\ Len(q) < MaxQLen
    /\ SetQ(Append(q, c))

Backspace ==
    /\ q # <<>>
    /\ SetQ(SubSeq(q, 1, Len(q) - 1))

FilterNext ==
    \/ \E c \in Alphabet : Type(c)
    \/ Backspace
    \/ ClearQ

FilterSpec == Init /\ [][FilterNext]_vars

----------------------------------------------------------------------------
(* Terms of the claims *)

\* n occurs in h as a contiguous run of characters
IsSubstring(n, h) ==
    \E k \in 0..(Len(h) - Len(n)) : \A j \in 1..Len(n) : h[k + j] = n[j]

\* the position of the entry with this id in the catalog, 1-based
Pos(id) == CHOOSE i \in 1..N : SECTIONS[i].id = id

\* the whitespace characters of the alphabet
Whitespace == {" ", "\t"}

\* a string with every letter in upper case
toUpperCaseChar(c) ==
    CASE c = "a" -> "A"
      [] c = "b" -> "B"
      [] OTHER -> c

RECURSIVE toUpperCase(_)
toUpperCase(s) ==
    IF s = <<>> THEN <<>>
    ELSE <<toUpperCaseChar(Head(s))>> \o toUpperCase(Tail(s))

\* the acknowledgment (the check mark) of card i's copy button is on screen
Ack(i) == i \in DOMAIN btn /\ btn[i].ok

----------------------------------------------------------------------------
(* Claims about the filter, checked under FilterSpec *)

\* C1: an entry is in the visible list if and only if the lowercase query is a
\* substring of its lowercase label, desc or code; id, note and color never
\* make an entry visible.
C1_VisibleIffMatch ==
    \A i \in 1..N :
        (SECTIONS[i].id \in Keys(list)) <=>
            \/ IsSubstring(toLowerCase(q), toLowerCase(SECTIONS[i].label))
            \/ IsSubstring(toLowerCase(q), toLowerCase(SECTIONS[i].desc))
            \/ IsSubstring(toLowerCase(q), toLowerCase(SECTIONS[i].code))

\* a query that occurs in the id, note and color of hidden entries only while
\* another entry is visible
C1_Witness ==
    /\ Keys(list) # {}
    /\ \E i \in 1..N :
         /\ SECTIONS[i].id \notin Keys(list)
         /\ IsSubstring(toLowerCase(q), toLowerCase(SECTIONS[i].note))
    /\ \E i \in 1..N :
         /\ SECTIONS[i].id \notin Keys(list)
         /\ IsSubstring(toLowerCase(q), toLowerCase(SECTIONS[i].id))
    /\ \E i \in 1..N :
         /\ SECTIONS[i].id \notin Keys(list)
         /\ IsSubstring(toLowerCase(q), toLowerCase(SECTIONS[i].color))

\* C3: for every query made of whitespace characters only, of any length, the
\* visible list is the full catalog.
C3_WhitespaceShowsAll ==
    (q # <<>> /\ \A k \in 1..Len(q) : q[k] \in Whitespace) =>
        (Len(list) = N /\ Keys(list) = Ids)

\* C9: the visible list is a subsequence of the catalog in catalog order: every
\* item is a catalog entry, and items appear in strictly increasing catalog
\* position (so none appears twice).
C9_Subsequence ==
    /\ \A k \in 1..Len(list) : \E i \in 1..N : SECTIONS[i].id = list[k].key
    /\ \A k, m \in 1..Len(list) : k < m => Pos(list[k].key) < Pos(list[m].key)

\* two entries visible, the first of the catalog filtered out
C9_Witness ==
    /\ Len(list) = 2
    /\ list[1].key = SECTIONS[2].id
    /\ list[2].key = SECTIONS[3].id

\* the entry with the letter case of its searched fields changed
UpperEntry(s) ==
    [s EXCEPT !.label = toUpperCase(s.label),
              !.desc = toUpperCase(s.desc),
              !.code = toUpperCase(s.code)]

LowerEntry(s) ==
    [s EXCEPT !.label = toLowerCase(s.label),
              !.desc = toLowerCase(s.desc),
              !.code = toLowerCase(s.code)]

\* C10: filtering is case-insensitive: every query that differs from the
\* current one only in letter case gives the same visible list, and an entry
\* matches exactly when the entry with its label, desc and code upper-cased or
\* lower-cased does.
C10_CaseInsensitive ==
    /\ \A v \in {w \in [1..Len(q) -> Alphabet] : toLowerCase(w) = toLowerCase(q)} :
         render(v) = list
    /\ \A i \in 1..N :
         /\ matches(UpperEntry(SECTIONS[i]), lowerQuery(q)) = (SECTIONS[i].id \in Keys(list))
         /\ matches(LowerEntry(SECTIONS[i]), lowerQuery(q)) = (SECTIONS[i].id \in Keys(list))

\* a query with an upper-case letter that shows some entries and hides others
C10_Witness ==
    /\ \E k \in 1..Len(q) : q[k] \in {"A", "B"}
    /\ Len(list) \in 1..(N - 1)

----------------------------------------------------------------------------
(* Claims about the cards and the copy buttons, checked under Spec *)

\* C2: a card that disappears from the visible list and later re-appears has
\* the open flag it had when it disappeared.
C2_ExpansionSurvivesFilter ==
    [][\A i \in Ids :
          (i \notin DOMAIN open /\ i \in DOMAIN open') => open'[i] = was[i]]_vars

\* C4: a failing clipboard write never surfaces as an uncaught failure: no
\* click handler throws and no rejected promise is left unhandled.
C4_NoUncaughtFailure == ~uncaught /\ ~unhandled

\* C5: the acknowledgment is shown only for a clipboard write that succeeded;
\* after a write that failed it is not shown.
C5_AckOnlyOnSuccess ==
    \A i \in DOMAIN btn : btn[i].ok => btn[i].wrote = "resolved"

\* C6: an acknowledgment is reverted only when the timer of the copy action
\* that produced it has run its full period: while the button stays mounted, ok
\* does not go from true to false with a timer of that button still running.
C6_AckLastsFullPeriod ==
    [][\A i \in Ids :
          (Ack(i) /\ i \in DOMAIN btn' /\ ~btn'[i].ok) =>
              ~\E t \in BagToSet(timers') : t.btn = i /\ t.live /\ t.left > 0]_vars

\* C7: after a copy action the acknowledgment of that button is eventually not
\* shown, whatever the user does in between, and once not shown it is shown
\* again only by a copy action on that button.
C7_AckEventuallyReverts ==
    /\ \A i \in Ids : Ack(i) ~> ~Ack(i)
    /\ [][\A i \in Ids : (~Ack(i) /\ Ack(i)') => Copy(i)]_vars

\* an acknowledgment on screen, its timer pending, with the query changed and
\* another card open
C7_Witness ==
    /\ q # <<>>
    /\ \E i \in Ids :
         /\ Ack(i)
         /\ \E t \in BagToSet(timers) : t.btn = i /\ t.live
         /\ \E j \in DOMAIN open \ {i} : open[j]

\* C8: toggling card a flips a's open flag and leaves every other card's open
\* flag, the set of cards and the query unchanged.
C8_ToggleFrame ==
    [][\A a \in Ids :
          Toggle(a) =>
              /\ open'[a] = ~open[a]
              /\ DOMAIN open' = DOMAIN open
              /\ \A b \in DOMAIN open \ {a} : open'[b] = open[b]
              /\ q' = q
              /\ list' = list]_vars

\* the first and last card open with the one between them closed
C8_Witness ==
    /\ DOMAIN open = Ids
    /\ open[SECTIONS[1].id]
    /\ ~open[SECTIONS[2].id]
    /\ open[SECTIONS[3].id]

\* the rendered list is the whole catalog, in catalog order
FullCatalog(l) ==
    /\ Len(l) = N
    /\ \A k \in 1..N : l[k].key = SECTIONS[k].id

\* C11: with the empty query the visible list is the whole catalog, all N
\* entries in catalog order: in the first render, in every later state with
\* the empty query, and right after the clear button is pressed.
C11_EmptyQueryShowsAll ==
    /\ FullCatalog(list)
    /\ [](q = <<>> => FullCatalog(list))
    /\ [][ClearQ => (q' = <<>> /\ FullCatalog(list'))]_vars

\* the empty query again, with cards and copy buttons used in between: a card
\* open and a callback of an unmounted copy button still pending
C11_Witness ==
    /\ q = <<>>
    /\ FullCatalog(list)
    /\ \E i \in DOMAIN open : open[i]
    /\ \E t \in BagToSet(timers) : ~t.live

\* card i is rendered expanded
IsOpen(i) == i \in DOMAIN open /\ open[i]

\* C12: in the first render every card of the catalog is mounted and
\* collapsed, and a card goes from not expanded to expanded only in a step
\* that toggles its own header.
C12_CollapsedUntilToggled ==
    /\ \A i \in Ids : i \in DOMAIN open /\ ~open[i]
    /\ [][\A i \in Ids : (~IsOpen(i) /\ IsOpen(i)') => Toggle(i)]_vars

\* one card expanded by its header and still on screen, one never expanded,
\* and one that was expanded when the query filtered it out
C12_Witness ==
    /\ q = <<"a">>
    /\ IsOpen(SECTIONS[2].id)
    /\ ~IsOpen(SECTIONS[1].id)
    /\ was[SECTIONS[3].id]

\* C13: every visible card displays its 1-based position in the full catalog,
\* whatever the query, so the numbers are strictly increasing down the list
\* and are not renumbered 1..k over the filtered list.
C13_NumberIsCatalogPosition ==
    /\ \A k \in 1..Len(list) : list[k].n = Pos(list[k].key)
    /\ \A k, m \in 1..Len(list) : k < m => list[k].n < list[m].n

\* the last entry of the catalog shown alone, numbered N and not 1
C13_Witness ==
    /\ Len(list) = 1
    /\ list[1].key = SECTIONS[N].id
    /\ list[1].n = N

\* C14: a step that changes the query (typing or the clear button) leaves the
\* open flag of every card that is visible before and after it unchanged, also
\* when the card's place in the list changes.
C14_QueryKeepsVisibleCards ==
    [][q' # q =>
          \A i \in DOMAIN open \cap DOMAIN open' : open'[i] = open[i]]_vars

\* the last card expanded and first in the list, the first card filtered out
\* while expanded
C14_Witness ==
    /\ q = <<"b", "b">>
    /\ list[1].key = SECTIONS[3].id
    /\ IsOpen(SECTIONS[3].id)
    /\ was[SECTIONS[1].id]

\* C15: a copy button that mounts starts with the acknowledgment not shown,
\* and the callback of a copy button that has since unmounted changes nothing
\* when it runs: not the acknowledgment of the button now in its place, not
\* any card's open flag, not the query.
C15_StaleTimerHarmless ==
    [][/\ \A i \in Ids : (i \notin DOMAIN btn /\ i \in DOMAIN btn') => ~btn'[i].ok
       /\ \A t \in BagToSet(timers) :
            (~t.live /\ Fire(t)) =>
                (btn' = btn /\ open' = open /\ q' = q /\ list' = list)]_vars

\* the callback of an unmounted copy button is due while the copy button that
\* replaced it shows its own acknowledgment
C15_Witness ==
    \E t \in BagToSet(timers) :
        /\ ~t.live
        /\ t.left = 0
        /\ Ack(t.btn)

\* every string of at most n characters
StringsUpTo(n) == UNION {[1..k -> Alphabet] : k \in 0..n}

\* C16: narrowing is monotone: every entry visible for the current query is
\* visible for every query whose lowercase is a substring of the current
\* query's lowercase, so extending a query only removes cards.
C16_NarrowingMonotone ==
    \A v \in {w \in StringsUpTo(Len(q)) : IsSubstring(toLowerCase(w), toLowerCase(q))} :
        Keys(list) \subseteq Keys(render(v))

\* a query of several characters that still shows an entry, one of whose
\* proper substrings shows more
C16_Witness ==
    /\ Len(q) >= 2
    /\ list # <<>>
    /\ \E a, b \in 1..Len(q) :
         /\ b - a + 1 < Len(q)
         /\ Keys(list) # Keys(render(SubSeq(q, a, b)))
         /\ Keys(list) \subseteq Keys(render(SubSeq(q, a, b)))

====
